---- MODULE Spec2Model ----
(***************************************************************************)
(* A model of nationalrail-gtfs (src/src/main.rs): the record state        *)
(* machine of parse_mca, the calendar and trip+service consolidation it    *)
(* performs when a terminal-location record finalizes a trip, and the      *)
(* pure helpers it calls (format_time, get_lo_line_details).               *)
(*                                                                         *)
(* Text the program only copies or compares is a TLA+ string.  Text the    *)
(* program looks inside (trim, chars().filter, to_uppercase().contains)    *)
(* is a sequence of one-character strings, turned into a string by Join.   *)
(* An Option<T> is a sequence of length 0 (None) or 1 (Some(v)); a         *)
(* HashMap is a function whose DOMAIN is its key set.                      *)
(***************************************************************************)
EXTENDS Naturals, Integers, Sequences, FiniteSets, TLC

(***************************************************************************)
(* Bounds of the model.                                                    *)
(***************************************************************************)
\* schedule-basic ("BS") lines read in one run
MaxSchedules == 2
\* stop events appended to accumulators in one run
MaxStopEvents == 2
\* timetable (.MCA) files of one run, each one call of parse_mca
MaxFiles == 2
\* association ("AA") lines read in one run
MaxAssoc == 2
\* stop events appended in a run that reads schedules of one terminal stop or more
MaxTripEvents == 3

(***************************************************************************)
(* Option, str::trim, String from chars, HashMap::insert.                  *)
(***************************************************************************)
None == <<>>

Some(v) == <<v>>

unwrap_or(opt, default) == IF opt = None THEN default ELSE opt[1]

Whitespace == {" "}

RECURSIVE TrimStart(_)
TrimStart(s) ==
    IF s # <<>> /\ Head(s) \in Whitespace THEN TrimStart(Tail(s)) ELSE s

RECURSIVE TrimEnd(_)
TrimEnd(s) ==
    IF s # <<>> /\ s[Len(s)] \in Whitespace
    THEN TrimEnd(SubSeq(s, 1, Len(s) - 1))
    ELSE s

Trim(s) == TrimEnd(TrimStart(s))

RECURSIVE Join(_)
Join(s) == IF s = <<>> THEN "" ELSE Head(s) \o Join(Tail(s))

MapInsert(m, k, v) == [x \in (DOMAIN m) \cup {k} |-> IF x = k THEN v ELSE m[x]]

EmptyMap == <<>>

(***************************************************************************)
(* Program constants.                                                      *)
(***************************************************************************)
PLACEHOLDER_TRIP_ID == "PLACEHOLDER"

DefaultAtoc == <<"N", "R">>

DefaultDays == <<"0", "0", "0", "0", "0", "0", "0">>

DefaultTime == <<"0", "0", "0", "0", "0">>

RouteTypeRail == 2

(***************************************************************************)
(* format_time: keep the characters char::is_numeric accepts, then, when   *)
(* the kept string is at least 4 bytes long, its bytes 0..2 and 2..4 as    *)
(* HH:MM:00, else midnight.  String::len and the slices count bytes of     *)
(* UTF-8, and a slice that does not end on a character boundary panics.    *)
(* A character outside ASCII is written here by its code point: "U+0663"   *)
(* is ARABIC-INDIC DIGIT THREE (numeric, 2 bytes), "U+2460" is CIRCLED     *)
(* DIGIT ONE (numeric, 3 bytes).                                           *)
(***************************************************************************)
AsciiDigit == {"0", "1", "2", "3", "4", "5", "6", "7", "8", "9"}

Numeric == AsciiDigit \cup {"U+0663", "U+2460"}

len_utf8(c) == IF c = "U+0663" THEN 2 ELSE IF c = "U+2460" THEN 3 ELSE 1

RECURSIVE len(_)
len(s) == IF s = <<>> THEN 0 ELSE len_utf8(Head(s)) + len(Tail(s))

\* the number of characters that make up the first `index` bytes of s, or -1 when
\* byte `index` is not a character boundary of s
RECURSIVE char_boundary(_, _)
char_boundary(s, index) ==
    IF index = 0 THEN 0
    ELSE IF s = <<>> \/ len_utf8(Head(s)) > index THEN -1
    ELSE LET k == char_boundary(Tail(s), index - len_utf8(Head(s)))
         IN  IF k < 0 THEN -1 ELSE k + 1

Panic == "panicked: byte index is not a char boundary"

format_time(raw) ==
    LET clean == SelectSeq(raw, LAMBDA c : c \in Numeric)
        mid == char_boundary(clean, 2)
        end == char_boundary(clean, 4)
    IN  IF len(clean) >= 4
        THEN IF mid < 0 \/ end < 0
             THEN Panic
             ELSE Join(SubSeq(clean, 1, mid)) \o ":" \o Join(SubSeq(clean, mid + 1, end))
                      \o ":00"
        ELSE "00:00:00"

(***************************************************************************)
(* get_lo_line_details: the names of the stations of the stops, then a     *)
(* decision list over upper-cased substring tests.                         *)
(***************************************************************************)
LowerCase == <<"a", "b", "c", "d", "e", "f", "g", "h", "i", "j", "k", "l", "m",
               "n", "o", "p", "q", "r", "s", "t", "u", "v", "w", "x", "y", "z">>

UpperCase == <<"A", "B", "C", "D", "E", "F", "G", "H", "I", "J", "K", "L", "M",
               "N", "O", "P", "Q", "R", "S", "T", "U", "V", "W", "X", "Y", "Z">>

UpperChar(c) ==
    IF \E i \in 1..Len(LowerCase) : LowerCase[i] = c
    THEN UpperCase[CHOOSE i \in 1..Len(LowerCase) : LowerCase[i] = c]
    ELSE c

to_uppercase(s) == [i \in 1..Len(s) |-> UpperChar(s[i])]

contains(s, pat) ==
    \E i \in 0..(Len(s) - Len(pat)) : SubSeq(s, i + 1, i + Len(pat)) = pat

StopNames(stops, map) ==
    {map[stops[i].stop_id].name : i \in {j \in 1..Len(stops) : stops[j].stop_id \in DOMAIN map}}

\* a slip: the names are compared as they are written
has_case_sensitive(names, s) == \E n \in names : contains(n, s)

has(names, s) == \E n \in names : contains(to_uppercase(n), to_uppercase(s))

GOSPEL_OAK == <<"G", "O", "S", "P", "E", "L", " ", "O", "A", "K">>
BARKING == <<"B", "A", "R", "K", "I", "N", "G">>
ROMFORD == <<"R", "O", "M", "F", "O", "R", "D">>
UPMINSTER == <<"U", "P", "M", "I", "N", "S", "T", "E", "R">>
LIVERPOOL_STREET == <<"L", "I", "V", "E", "R", "P", "O", "O", "L", " ", "S", "T", "R", "E", "E", "T">>
CHESHUNT == <<"C", "H", "E", "S", "H", "U", "N", "T">>
ENFIELD_TOWN == <<"E", "N", "F", "I", "E", "L", "D", " ", "T", "O", "W", "N">>
CHINGFORD == <<"C", "H", "I", "N", "G", "F", "O", "R", "D">>
EUSTON == <<"E", "U", "S", "T", "O", "N">>
WATFORD_JUNCTION == <<"W", "A", "T", "F", "O", "R", "D", " ", "J", "U", "N", "C", "T", "I", "O", "N">>
SHOREDITCH_HIGH_STREET == <<"S", "H", "O", "R", "E", "D", "I", "T", "C", "H", " ", "H", "I", "G", "H", " ", "S", "T", "R", "E", "E", "T">>
STRATFORD == <<"S", "T", "R", "A", "T", "F", "O", "R", "D">>
RICHMOND == <<"R", "I", "C", "H", "M", "O", "N", "D">>
WILLESDEN_JUNCTION == <<"W", "I", "L", "L", "E", "S", "D", "E", "N", " ", "J", "U", "N", "C", "T", "I", "O", "N">>
CAMDEN_ROAD == <<"C", "A", "M", "D", "E", "N", " ", "R", "O", "A", "D">>
HACKNEY_CENTRAL == <<"H", "A", "C", "K", "N", "E", "Y", " ", "C", "E", "N", "T", "R", "A", "L">>

\* a slip: the rule of Euston and Watford Junction is left out of the list
get_lo_line_details_no_lioness(stops, map) ==
    LET names == StopNames(stops, map)
    IN  IF has(names, GOSPEL_OAK) /\ has(names, BARKING)
        THEN <<"Suffragette Line", "LO-SUFFRAGETTE", "008163">>
        ELSE IF has(names, ROMFORD) /\ has(names, UPMINSTER)
        THEN <<"Liberty Line", "LO-LIBERTY", "676767">>
        ELSE IF has(names, LIVERPOOL_STREET)
                /\ (has(names, CHESHUNT) \/ has(names, ENFIELD_TOWN) \/ has(names, CHINGFORD))
        THEN <<"Weaver Line", "LO-WEAVER", "a90068">>
        ELSE IF has(names, SHOREDITCH_HIGH_STREET)
        THEN <<"Windrush Line", "LO-WINDRUSH", "dc2517">>
        ELSE IF has(names, STRATFORD)
                \/ (has(names, RICHMOND) /\ has(names, WILLESDEN_JUNCTION))
                \/ has(names, CAMDEN_ROAD)
                \/ has(names, HACKNEY_CENTRAL)
        THEN <<"Mildmay Line", "LO-MILDMAY", "437ec1">>
        ELSE <<"London Overground", "LO-GENERIC", "E66A1F">>

get_lo_line_details(stops, map) ==
    LET names == StopNames(stops, map)
    IN  IF has(names, GOSPEL_OAK) /\ has(names, BARKING)
        THEN <<"Suffragette Line", "LO-SUFFRAGETTE", "008163">>
        ELSE IF has(names, ROMFORD) /\ has(names, UPMINSTER)
        THEN <<"Liberty Line", "LO-LIBERTY", "676767">>
        ELSE IF has(names, LIVERPOOL_STREET)
                /\ (has(names, CHESHUNT) \/ has(names, ENFIELD_TOWN) \/ has(names, CHINGFORD))
        THEN <<"Weaver Line", "LO-WEAVER", "a90068">>
        ELSE IF has(names, EUSTON) /\ has(names, WATFORD_JUNCTION)
        THEN <<"Lioness Line", "LO-LIONESS", "f1b41c">>
        ELSE IF has(names, SHOREDITCH_HIGH_STREET)
        THEN <<"Windrush Line", "LO-WINDRUSH", "dc2517">>
        ELSE IF has(names, STRATFORD)
                \/ (has(names, RICHMOND) /\ has(names, WILLESDEN_JUNCTION))
                \/ has(names, CAMDEN_ROAD)
                \/ has(names, HACKNEY_CENTRAL)
        THEN <<"Mildmay Line", "LO-MILDMAY", "437ec1">>
        ELSE <<"London Overground", "LO-GENERIC", "E66A1F">>

(***************************************************************************)
(* Inputs.  The Station map and the operator names are what parse_msn and  *)
(* parse_fares_toc left in tiploc_map and toc_map before the first         *)
(* timetable file is read.  A line is the record of the fields its         *)
(* handler slices out of it; a field the line is too short to hold is      *)
(* None, as line.get(a..b) is.                                             *)
(***************************************************************************)
ParsedStation(tiploc, name, lat, lon) ==
    [tiploc |-> tiploc, name |-> name, lat |-> lat, lon |-> lon]

Stations ==
    MapInsert(MapInsert(EmptyMap,
        "EUSTON", ParsedStation("EUSTON", <<"L", "O", "N", "D", "O", "N", " ", "E", "U", "S", "T", "O", "N">>, 51, 0)),
        "WATFDJN", ParsedStation("WATFDJN", <<"W", "A", "T", "F", "O", "R", "D", " ", "J", "U", "N", "C", "T", "I", "O", "N">>, 51, 0))

Operators == MapInsert(EmptyMap, "VT", "Avanti West Coast")

BSLine(uid, d_start, d_end, days, train_id, stp) ==
    [type |-> Some("BS"), uid |-> uid, d_start |-> d_start, d_end |-> d_end,
     days |-> days, train_id |-> train_id, stp |-> stp]

BXLine(atoc) == [type |-> Some("BX"), atoc |-> atoc]

LOLine(tiploc, dep) == [type |-> Some("LO"), tiploc |-> tiploc, dep |-> dep]

LILine(tiploc, arr, dep, pub_arr, pub_dep) ==
    [type |-> Some("LI"), tiploc |-> tiploc, arr |-> arr, dep |-> dep,
     pub_arr |-> pub_arr, pub_dep |-> pub_dep]

LTLine(tiploc, arr) == [type |-> Some("LT"), tiploc |-> tiploc, arr |-> arr]

AALine(f) ==
    [type |-> Some("AA"), base_uid |-> f[1], assoc_uid |-> f[2], start_date |-> f[3],
     end_date |-> f[4], days_run |-> f[5], category |-> f[6], location |-> f[7],
     assoc_type |-> f[8], stp_indicator |-> f[9]]

\* raw fields: location codes padded to 7 characters (the last is in no Station
\* map), times of 5 characters with the half-minute marker, codes of 2 and 4
FieldEuston == <<"E", "U", "S", "T", "O", "N", " ">>

FieldWatford == <<"W", "A", "T", "F", "D", "J", "N">>

FieldCamdenJn == <<"C", "M", "D", "N", "J", "N", " ">>

T0930 == <<"0", "9", "3", "0", " ">>

T0945H == <<"0", "9", "4", "5", "H">>

T0946 == <<"0", "9", "4", "6", " ">>

T0938 == <<"0", "9", "3", "8", " ">>

T0938H == <<"0", "9", "3", "8", "H">>

T1002 == <<"1", "0", "0", "2", " ">>

\* format_time of the time fields of the timetable lines, worked out once
TimeFields == {T0930, T0945H, T0946, T0938, T0938H, T1002, DefaultTime}

Formatted == [raw \in TimeFields |-> format_time(raw)]

Headcode == <<"2", "A", "0", "1">>

FieldVT == <<"V", "T">>

FieldBlank == <<" ", " ">>

WeekDays == <<"1", "1", "1", "1", "1", "0", "0">>

WeekEnd == <<"0", "0", "0", "0", "0", "1", "1">>

Permanent == BSLine(Some("C10001"), Some("250518"), Some("251213"), Some(WeekDays),
                    Some(Headcode), Some("P"))

\* the same train and calendar under another UID
SameUnderOtherUid == BSLine(Some("C10002"), Some("250518"), Some("251213"),
                            Some(WeekDays), Some(Headcode), Some("P"))

\* an overlay of the first UID with another calendar
Overlay == BSLine(Some("C10001"), Some("250601"), Some("251213"), Some(WeekEnd),
                  Some(Headcode), Some("O"))

Cancellation == BSLine(Some("C10001"), Some("250518"), Some("251213"),
                       Some(WeekDays), Some(Headcode), Some("C"))

\* a line cut off after its record type
TruncatedBS == BSLine(None, None, None, None, None, None)

BSLines == {Permanent, Cancellation}

\* the last is a line cut off before its operator field
BXLines == { BXLine(Some(FieldVT)), BXLine(Some(FieldBlank)), BXLine(None) }

LOLines == { LOLine(Some(FieldEuston), Some(T0930)),
             LOLine(Some(FieldCamdenJn), Some(T0930)) }

LILines ==
    { LILine(Some(FieldWatford), Some(T0945H), Some(T0946), Some("0000"), Some("0946")),
      LILine(Some(FieldWatford), Some(T0945H), Some(T0946), Some("0000"), Some("0000")),
      LILine(Some(FieldCamdenJn), Some(T0938), Some(T0938H), Some("0938"), Some("0938")) }

LTLines == { LTLine(Some(FieldWatford), Some(T1002)),
             LTLine(Some(FieldCamdenJn), Some(T1002)) }

\* the second is a line cut off after its record type
AALines ==
    { AALine(<<Some("C10001"), Some("C10002"), Some("250518"), Some("251213"),
               Some("1111100"), Some("JJ"), Some(FieldWatford), Some("P"), Some("P")>>),
      AALine(<<None, None, None, None, None, None, None, None, None>>) }

\* a record type parse_mca has no arm for, and a line shorter than 2 characters
OtherLines == { [type |-> Some("ZZ")], [type |-> None] }

\* the lines of the runs that exercise the consolidation of trips and calendars
DedupBSLines == {Permanent, SameUnderOtherUid, Overlay, TruncatedBS}

DedupBXLines == { BXLine(Some(FieldVT)) }

DedupLOLines == { LOLine(Some(FieldEuston), Some(T0930)) }

DedupLTLines == { LTLine(Some(FieldWatford), Some(T1002)),
                  LTLine(Some(FieldEuston), Some(T1002)) }

(***************************************************************************)
(* State.  main's maps, counter and writers (a writer is the sequence of   *)
(* the rows serialized to it), parse_mca's locals, and history variables   *)
(* that record what happened: they are written and never read by the       *)
(* program's steps.                                                        *)
(***************************************************************************)
VARIABLES
    tiploc_map,                 \* main: the Station map
    toc_lookup,                 \* main: operator code -> name
    agencies_set,               \* main: HashSet<Agency>
    routes_map,                 \* main: route_id -> Route
    trip_service_to_id,         \* main: TripServiceSignature -> trip_id
    uid_usage_count,            \* main: UID -> trips written under it
    calendar_signature_to_id,   \* main: CalendarSignature -> service_id
    service_counter,            \* main: next synthetic service number
    trips_w, st_w, cal_w, assoc_w,  \* rows of trips, stop_times, calendar, associations
    files,                      \* main: timetable files opened so far
    current_trip,               \* parse_mca: Option<TripState>
    seq_counter,                \* parse_mca: next stop_sequence
    line,                       \* parse_mca: the line of this loop iteration
    sched,                      \* history: BS lines read so far
    nstops,                     \* history: stop events appended so far
    stop_limit,                 \* the stop events a behaviour may append, fixed by its Init
    phase,                      \* history: what the lines since the last BS line were
    replaced,                   \* history: the last BS line or file start dropped an accumulator
    omitted,                    \* history: a "LO"/"LI" line since the last BS line named no Station
    fin,                        \* history: one entry per "LT" that reached the consolidation
    args,                       \* a helper called on its own: its name and arguments
    result                      \* a helper called on its own: what it returned

main_vars ==
    <<tiploc_map, toc_lookup, agencies_set, routes_map, trip_service_to_id,
      uid_usage_count, calendar_signature_to_id, service_counter>>

writers == <<trips_w, st_w, cal_w, assoc_w>>

call_vars == <<args, result>>

vars ==
    <<tiploc_map, toc_lookup, agencies_set, routes_map, trip_service_to_id,
      uid_usage_count, calendar_signature_to_id, service_counter,
      trips_w, st_w, cal_w, assoc_w, files, current_trip, seq_counter, line,
      sched, nstops, stop_limit, phase, replaced, omitted, fin, args, result>>

Init ==
    /\ tiploc_map = Stations
    /\ toc_lookup = Operators
    /\ agencies_set = {}
    /\ routes_map = EmptyMap
    /\ trip_service_to_id = EmptyMap
    /\ uid_usage_count = EmptyMap
    /\ calendar_signature_to_id = EmptyMap
    /\ service_counter = 0
    /\ trips_w = <<>>
    /\ st_w = <<>>
    /\ cal_w = <<>>
    /\ assoc_w = <<>>
    /\ files = 0
    /\ current_trip = None
    /\ seq_counter = 0
    /\ line = None
    /\ sched = 0
    /\ nstops = 0
    /\ stop_limit = MaxStopEvents
    /\ phase = "none"
    /\ replaced = FALSE
    /\ omitted = FALSE
    /\ fin = <<>>
    /\ args = None
    /\ result = None

(***************************************************************************)
(* main opens the next .MCA file and calls parse_mca, whose locals start   *)
(* afresh; the accumulator the previous file left open is gone.            *)
(***************************************************************************)
StartFile ==
    /\ files < MaxFiles
    /\ files' = files + 1
    /\ current_trip' = None
    /\ seq_counter' = 0
    /\ line' = None
    /\ phase' = "none"
    /\ replaced' = (current_trip # None)
    /\ omitted' = FALSE
    /\ UNCHANGED <<stop_limit, call_vars, main_vars, writers, sched, nstops, fin>>

(***************************************************************************)
(* "BS": a cancellation drops the accumulator; any other line starts a     *)
(* fresh one and restarts the sequence numbers at 1.                       *)
(***************************************************************************)
\* a slip: the revision indicator compared in the wrong case
IsCancellationLowerCase(stp) == stp = "c"

IsCancellation(stp) == stp = "C"

\* a slip: the accumulator starts without the placeholder operator code
TripStateNoOperator(uid, date_start, date_end, days_run, stp_ind, train_identity) ==
    [uid |-> uid, date_start |-> date_start, date_end |-> date_end,
     days_run |-> days_run, stp_ind |-> stp_ind, atoc_code |-> "",
     train_identity |-> train_identity, origin_name |-> <<>>,
     dest_name |-> <<>>, stops |-> <<>>]

TripState(uid, date_start, date_end, days_run, stp_ind, train_identity) ==
    [uid |-> uid, date_start |-> date_start, date_end |-> date_end,
     days_run |-> days_run, stp_ind |-> stp_ind, atoc_code |-> Join(DefaultAtoc),
     train_identity |-> train_identity, origin_name |-> <<>>,
     dest_name |-> <<>>, stops |-> <<>>]

ReadBS(l) ==
    /\ files >= 1
    /\ l.type = Some("BS")
    /\ sched < MaxSchedules
    /\ LET uid == unwrap_or(l.uid, "")
           d_start == unwrap_or(l.d_start, "")
           d_end == unwrap_or(l.d_end, "")
           days == unwrap_or(l.days, DefaultDays)
           train_id == Join(Trim(unwrap_or(l.train_id, <<>>)))
           stp == unwrap_or(l.stp, "P")
       IN  IF IsCancellation(stp)
           THEN /\ current_trip' = None
                /\ seq_counter' = seq_counter
           ELSE /\ current_trip' = Some(TripState(uid, d_start, d_end, days, stp, train_id))
                /\ seq_counter' = 1
    /\ line' = Some(l)
    /\ phase' = IF l.stp = Some("C") THEN "cancelled" ELSE "open"
    /\ sched' = sched + 1
    /\ replaced' = (current_trip # None)
    /\ omitted' = FALSE
    /\ UNCHANGED <<stop_limit, call_vars, main_vars, writers, files, nstops, fin>>

(***************************************************************************)
(* "BX": a non-empty operator code overwrites the accumulator's.           *)
(***************************************************************************)
\* a slip: the agency is registered when its code is read
ReadBXRegisteringAgency(l) ==
    /\ files >= 1
    /\ l.type = Some("BX")
    /\ current_trip' = current_trip
    /\ agencies_set' = agencies_set \cup {Join(Trim(unwrap_or(l.atoc, DefaultAtoc)))}
    /\ line' = Some(l)
    /\ UNCHANGED <<stop_limit, call_vars, tiploc_map, toc_lookup, routes_map, trip_service_to_id,
                   uid_usage_count, calendar_signature_to_id, service_counter, writers,
                   files, seq_counter, sched, nstops, phase, replaced, omitted, fin>>

ReadBX(l) ==
    /\ files >= 1
    /\ l.type = Some("BX")
    /\ IF current_trip # None
       THEN LET trip == current_trip[1]
                atoc == Join(Trim(unwrap_or(l.atoc, DefaultAtoc)))
            IN  IF atoc # ""
                THEN current_trip' = Some([trip EXCEPT !.atoc_code = atoc])
                ELSE current_trip' = current_trip
       ELSE current_trip' = current_trip
    /\ line' = Some(l)
    /\ UNCHANGED <<stop_limit, call_vars, main_vars, writers, files, seq_counter, sched, nstops, phase,
                   replaced, omitted, fin>>

(***************************************************************************)
(* "LO" and "LI": a stop is appended at seq_counter when the location      *)
(* code is in the Station map ("LI": and a public time is not "0000").     *)
(***************************************************************************)
StopTime(trip_id, arrival_time, departure_time, stop_id, stop_sequence) ==
    [trip_id |-> trip_id, arrival_time |-> arrival_time,
     departure_time |-> departure_time, stop_id |-> stop_id,
     stop_sequence |-> stop_sequence]

Tiploc(l) == Join(Trim(unwrap_or(l.tiploc, <<>>)))

get(map, key) == IF key \in DOMAIN map THEN Some(map[key]) ELSE None

\* a slip: the Station map is not consulted
contains_any_key(map, key) == TRUE

contains_key(map, key) == key \in DOMAIN map

\* a slip: one zero-filled public time is enough to skip the stop
EitherPublicTimeZero(pub_arr, pub_dep) == pub_arr = "0000" \/ pub_dep = "0000"

NoPublicTimes(pub_arr, pub_dep) == pub_arr = "0000" /\ pub_dep = "0000"

AppendsLO(l) == current_trip # None /\ get(tiploc_map, Tiploc(l)) # None

ReadLO(l) ==
    /\ files >= 1
    /\ l.type = Some("LO")
    /\ AppendsLO(l) => nstops < stop_limit
    /\ IF AppendsLO(l)
       THEN LET trip == current_trip[1]
                tiploc == Tiploc(l)
                dep_sched == Formatted[unwrap_or(l.dep, DefaultTime)]
                station == get(tiploc_map, tiploc)[1]
            IN  /\ current_trip' = Some([trip EXCEPT
                       !.origin_name = station.name,
                       !.stops = Append(@, StopTime(PLACEHOLDER_TRIP_ID, dep_sched,
                                                    dep_sched, tiploc, seq_counter))])
                /\ seq_counter' = seq_counter + 1
                /\ nstops' = nstops + 1
       ELSE UNCHANGED <<current_trip, seq_counter, nstops>>
    /\ line' = Some(l)
    /\ omitted' = (omitted \/ (current_trip # None /\ ~contains_key(tiploc_map, Tiploc(l))))
    /\ UNCHANGED <<stop_limit, call_vars, main_vars, writers, files, sched, phase, replaced, fin>>

\* a slip: the location code of a "LI" line is not looked up in the Station map
AppendsLIUnresolved(l) ==
    /\ current_trip # None
    /\ ~NoPublicTimes(unwrap_or(l.pub_arr, "0000"), unwrap_or(l.pub_dep, "0000"))

AppendsLI(l) ==
    /\ current_trip # None
    /\ ~NoPublicTimes(unwrap_or(l.pub_arr, "0000"), unwrap_or(l.pub_dep, "0000"))
    /\ contains_key(tiploc_map, Tiploc(l))

ReadLI(l) ==
    /\ files >= 1
    /\ l.type = Some("LI")
    /\ AppendsLI(l) => nstops < stop_limit
    /\ IF AppendsLI(l)
       THEN LET trip == current_trip[1]
                arr_sched == Formatted[unwrap_or(l.arr, DefaultTime)]
                dep_sched == Formatted[unwrap_or(l.dep, DefaultTime)]
            IN  /\ current_trip' = Some([trip EXCEPT
                       !.stops = Append(@, StopTime(PLACEHOLDER_TRIP_ID, arr_sched,
                                                    dep_sched, Tiploc(l), seq_counter))])
                /\ seq_counter' = seq_counter + 1
                /\ nstops' = nstops + 1
       ELSE UNCHANGED <<current_trip, seq_counter, nstops>>
    /\ line' = Some(l)
    /\ omitted' = (omitted \/ (current_trip # None /\ ~contains_key(tiploc_map, Tiploc(l))))
    /\ UNCHANGED <<stop_limit, call_vars, main_vars, writers, files, sched, phase, replaced, fin>>

(***************************************************************************)
(* "LT" with a location code of the Station map: the final stop is         *)
(* appended at seq_counter (which is not advanced), then the agency, the   *)
(* route, the calendar and the trip are derived and written.  The          *)
(* accumulator stays in current_trip.                                      *)
(***************************************************************************)
\* a slip: the operator code is left out of the row
AgencyWithoutId(atoc_code, toc) ==
    [agency_id |-> "",
     agency_name |-> IF atoc_code \in DOMAIN toc
                     THEN toc[atoc_code]
                     ELSE "National Rail (" \o atoc_code \o ")",
     agency_url |-> "http://www.nationalrail.co.uk",
     agency_timezone |-> "Europe/London"]

Agency(atoc_code, toc) ==
    [agency_id |-> atoc_code,
     agency_name |-> IF atoc_code \in DOMAIN toc
                     THEN toc[atoc_code]
                     ELSE "National Rail (" \o atoc_code \o ")",
     agency_url |-> "http://www.nationalrail.co.uk",
     agency_timezone |-> "Europe/London"]

Route(trip, map) ==
    LET lo == get_lo_line_details(trip.stops, map)
    IN  IF trip.atoc_code = "LO" /\ lo[1] # ""
        THEN [route_id |-> lo[2], agency_id |-> trip.atoc_code,
              route_short_name |-> "LO", route_long_name |-> lo[1],
              route_type |-> RouteTypeRail, route_color |-> lo[3],
              route_text_color |-> "FFFFFF"]
        ELSE [route_id |-> trip.atoc_code \o "_" \o Join(trip.origin_name),
              agency_id |-> trip.atoc_code,
              route_short_name |-> trip.atoc_code,
              route_long_name |-> Join(trip.origin_name) \o " to " \o Join(trip.dest_name),
              route_type |-> RouteTypeRail, route_color |-> "",
              route_text_color |-> "000000"]

\* a slip: the entry is overwritten
insert_over(map, key, value) == MapInsert(map, key, value)

or_insert(map, key, value) == IF key \in DOMAIN map THEN map ELSE MapInsert(map, key, value)

DayFlag(days_run, i) ==
    IF i <= Len(days_run) THEN (IF days_run[i] = "1" THEN 1 ELSE 0) ELSE 0

CalendarSignature(trip) ==
    [monday |-> DayFlag(trip.days_run, 1), tuesday |-> DayFlag(trip.days_run, 2),
     wednesday |-> DayFlag(trip.days_run, 3), thursday |-> DayFlag(trip.days_run, 4),
     friday |-> DayFlag(trip.days_run, 5), saturday |-> DayFlag(trip.days_run, 6),
     sunday |-> DayFlag(trip.days_run, 7),
     start_date |-> "20" \o trip.date_start, end_date |-> "20" \o trip.date_end]

Calendar(service_id, cal_sig) ==
    [service_id |-> service_id, monday |-> cal_sig.monday,
     tuesday |-> cal_sig.tuesday, wednesday |-> cal_sig.wednesday,
     thursday |-> cal_sig.thursday, friday |-> cal_sig.friday,
     saturday |-> cal_sig.saturday, sunday |-> cal_sig.sunday,
     start_date |-> cal_sig.start_date, end_date |-> cal_sig.end_date]

\* a slip: the calendar map is never hit
NoExistingService(cal_map, cal_sig) == None

ExistingService(cal_map, cal_sig) == get(cal_map, cal_sig)

\* a slip: the identifier is formatted after the counter is advanced
NewServiceIdAfterIncrement(counter) == "SVC" \o ToString(counter + 1)

NewServiceId(counter) == "SVC" \o ToString(counter)

TripSignature(route_id, trip) ==
    [route_id |-> route_id,
     stop_pattern |-> [i \in 1..Len(trip.stops) |->
                          <<trip.stops[i].stop_id, trip.stops[i].arrival_time,
                            trip.stops[i].departure_time>>],
     headsign |-> trip.dest_name,
     train_identity |-> trip.train_identity]

\* a slip: the service is left out of the composite signature
TripSignatureAlone(trip_sig, service_id) ==
    [trip_sig |-> trip_sig, service_id |-> ""]

TripServiceSignature(trip_sig, service_id) ==
    [trip_sig |-> trip_sig, service_id |-> service_id]

\* a slip: the trip+service map is never hit
AlwaysNewTripService(map, trip_service_sig) == TRUE

IsNewTripService(map, trip_service_sig) == trip_service_sig \notin DOMAIN map

UsageCount(counts, base_uid) == IF base_uid \in DOMAIN counts THEN counts[base_uid] ELSE 0

\* a slip: the usage count is ignored
BareTripId(base_uid, usage_count, date_start, stp_ind) == base_uid

NewTripId(base_uid, usage_count, date_start, stp_ind) ==
    IF usage_count = 0
    THEN base_uid
    ELSE base_uid \o "_" \o date_start \o "_" \o stp_ind

Trip(route_id, service_id, trip_id, trip) ==
    [route_id |-> route_id, service_id |-> service_id, trip_id |-> trip_id,
     trip_headsign |-> Join(trip.dest_name), trip_short_name |-> trip.train_identity]

\* a slip: the stops are written as they were accumulated
StopRowsAsAccumulated(stops, trip_id) == stops

StopRows(stops, trip_id) == [i \in 1..Len(stops) |-> [stops[i] EXCEPT !.trip_id = trip_id]]

FinalizesLT(l) == current_trip # None /\ get(tiploc_map, Tiploc(l)) # None

ReadLT(l) ==
    /\ files >= 1
    /\ l.type = Some("LT")
    /\ FinalizesLT(l) => nstops < stop_limit
    /\ line' = Some(l)
    /\ IF FinalizesLT(l)
       THEN LET tiploc == Tiploc(l)
                arr_sched == Formatted[unwrap_or(l.arr, DefaultTime)]
                station == get(tiploc_map, tiploc)[1]
                trip == [current_trip[1] EXCEPT
                            !.dest_name = station.name,
                            !.stops = Append(@, StopTime(PLACEHOLDER_TRIP_ID, arr_sched,
                                                         arr_sched, tiploc, seq_counter))]
                route == Route(trip, tiploc_map)
                cal_sig == CalendarSignature(trip)
                existing == ExistingService(calendar_signature_to_id, cal_sig)
                service_id == IF existing # None THEN existing[1]
                              ELSE NewServiceId(service_counter)
                sig == TripServiceSignature(TripSignature(route.route_id, trip), service_id)
                is_new == IsNewTripService(trip_service_to_id, sig)
                usage_count == UsageCount(uid_usage_count, trip.uid)
                new_trip_id == NewTripId(trip.uid, usage_count, trip.date_start, trip.stp_ind)
            IN  /\ current_trip' = Some(trip)
                /\ agencies_set' = agencies_set \cup {Agency(trip.atoc_code, toc_lookup)}
                /\ routes_map' = or_insert(routes_map, route.route_id, route)
                /\ IF existing # None
                   THEN UNCHANGED <<service_counter, cal_w, calendar_signature_to_id>>
                   ELSE /\ service_counter' = service_counter + 1
                        /\ cal_w' = Append(cal_w, Calendar(service_id, cal_sig))
                        /\ calendar_signature_to_id' =
                               MapInsert(calendar_signature_to_id, cal_sig, service_id)
                /\ IF is_new
                   THEN /\ uid_usage_count' =
                               MapInsert(uid_usage_count, trip.uid, usage_count + 1)
                        /\ trip_service_to_id' =
                               MapInsert(trip_service_to_id, sig, new_trip_id)
                        /\ trips_w' = Append(trips_w,
                               Trip(route.route_id, service_id, new_trip_id, trip))
                        /\ st_w' = st_w \o StopRows(trip.stops, new_trip_id)
                   ELSE UNCHANGED <<uid_usage_count, trip_service_to_id, trips_w, st_w>>
                /\ nstops' = nstops + 1
                /\ phase' = "committed"
                /\ fin' = Append(fin,
                       [bs |-> sched, uid |-> trip.uid, date_start |-> trip.date_start,
                        stp_ind |-> trip.stp_ind, cal_sig |-> cal_sig,
                        service_id |-> service_id, sig |-> sig,
                        counter |-> service_counter, cal_rows |-> Len(cal_w),
                        trips_rows |-> Len(trips_w), st_rows |-> Len(st_w)])
       ELSE /\ phase' = IF current_trip # None THEN "unresolved" ELSE phase
            /\ UNCHANGED <<agencies_set, routes_map, trip_service_to_id,
                           uid_usage_count, calendar_signature_to_id, service_counter,
                           trips_w, st_w, cal_w, current_trip, nstops, fin>>
    /\ UNCHANGED <<stop_limit, call_vars, tiploc_map, toc_lookup, assoc_w, files, seq_counter, sched,
                   replaced, omitted>>

(***************************************************************************)
(* "AA": one associations row per line, whatever the accumulator holds.    *)
(***************************************************************************)
Association(l) ==
    [base_uid |-> unwrap_or(l.base_uid, ""),
     assoc_uid |-> unwrap_or(l.assoc_uid, ""),
     start_date |-> "20" \o unwrap_or(l.start_date, ""),
     end_date |-> "20" \o unwrap_or(l.end_date, ""),
     days_run |-> unwrap_or(l.days_run, ""),
     category |-> unwrap_or(l.category, ""),
     location |-> Join(Trim(unwrap_or(l.location, <<>>))),
     assoc_type |-> unwrap_or(l.assoc_type, ""),
     stp_indicator |-> unwrap_or(l.stp_indicator, "")]

\* a slip: a row that was written before is not written again
ReadAAOnce(l) ==
    /\ files >= 1
    /\ l.type = Some("AA")
    /\ Len(assoc_w) < MaxAssoc
    /\ assoc_w' = IF \E i \in 1..Len(assoc_w) : assoc_w[i] = Association(l)
                  THEN assoc_w
                  ELSE Append(assoc_w, Association(l))
    /\ line' = Some(l)
    /\ UNCHANGED <<stop_limit, call_vars, main_vars, trips_w, st_w, cal_w, files, current_trip, seq_counter,
                   sched, nstops, phase, replaced, omitted, fin>>

ReadAA(l) ==
    /\ files >= 1
    /\ l.type = Some("AA")
    /\ Len(assoc_w) < MaxAssoc
    /\ assoc_w' = Append(assoc_w, Association(l))
    /\ line' = Some(l)
    /\ UNCHANGED <<stop_limit, call_vars, main_vars, trips_w, st_w, cal_w, files, current_trip, seq_counter,
                   sched, nstops, phase, replaced, omitted, fin>>

(***************************************************************************)
(* A line shorter than 2 characters, or of any other record type.          *)
(***************************************************************************)
RecordTypes == {"BS", "BX", "LO", "LI", "LT", "AA"}

ReadOther(l) ==
    /\ files >= 1
    /\ IF l.type = None THEN TRUE ELSE l.type[1] \notin RecordTypes
    /\ line' = Some(l)
    /\ UNCHANGED <<stop_limit, call_vars, main_vars, writers, files, current_trip, seq_counter, sched,
                   nstops, phase, replaced, omitted, fin>>

Next ==
    \/ StartFile
    \/ \E l \in BSLines : ReadBS(l)
    \/ \E l \in BXLines : ReadBX(l)
    \/ \E l \in LOLines : ReadLO(l)
    \/ \E l \in LILines : ReadLI(l)
    \/ \E l \in LTLines : ReadLT(l)
    \/ \E l \in OtherLines : ReadOther(l)

Spec == Init /\ [][Next]_vars

NextDedup ==
    \/ StartFile
    \/ \E l \in DedupBSLines : ReadBS(l)
    \/ \E l \in DedupBXLines : ReadBX(l)
    \/ \E l \in DedupLOLines : ReadLO(l)
    \/ \E l \in DedupLTLines : ReadLT(l)

SpecDedup == Init /\ [][NextDedup]_vars

\* the runs that exercise the association lines, between the lines of schedules
NextAssoc ==
    \/ StartFile
    \/ ReadBS(Permanent)
    \/ \E l \in DedupLOLines : ReadLO(l)
    \/ \E l \in DedupLTLines : ReadLT(l)
    \/ \E l \in AALines : ReadAA(l)

SpecAssoc == Init /\ [][NextAssoc]_vars

\* the runs that write the trips of schedules which name their terminal stops only,
\* one or more to a schedule
InitIds ==
    /\ tiploc_map = Stations
    /\ toc_lookup = Operators
    /\ agencies_set = {}
    /\ routes_map = EmptyMap
    /\ trip_service_to_id = EmptyMap
    /\ uid_usage_count = EmptyMap
    /\ calendar_signature_to_id = EmptyMap
    /\ service_counter = 0
    /\ trips_w = <<>>
    /\ st_w = <<>>
    /\ cal_w = <<>>
    /\ assoc_w = <<>>
    /\ files = 0
    /\ current_trip = None
    /\ seq_counter = 0
    /\ line = None
    /\ sched = 0
    /\ nstops = 0
    /\ stop_limit = MaxTripEvents
    /\ phase = "none"
    /\ replaced = FALSE
    /\ omitted = FALSE
    /\ fin = <<>>
    /\ args = None
    /\ result = None

NextIds ==
    \/ StartFile
    \/ \E l \in DedupBSLines : ReadBS(l)
    \/ \E l \in DedupLTLines : ReadLT(l)

SpecIds == InitIds /\ [][NextIds]_vars

(***************************************************************************)
(* parse_msn: one Station per "A" line of the station file, stored under   *)
(* its location code; a later line of the same code overwrites.  The       *)
(* coordinates are the geocode lookup's when the short station code is a   *)
(* key of it, else the conversion of the grid reference, else (0, 0).      *)
(* Coordinates are integers, in units of 0.0001 degree.                    *)
(*                                                                         *)
(* convert_osgb36_to_ll belongs to the lonlat_bng crate: the model keeps   *)
(* that it fails outside the grid, and stands for the transformation by    *)
(* a linear one.  str::parse::<f64> is modelled on strings of digits; any  *)
(* other string of the model's lines is one it rejects.                    *)
(***************************************************************************)
OsmLookup == MapInsert(EmptyMap, "EUS", <<515284, -1337>>)

Digits == <<"0", "1", "2", "3", "4", "5", "6", "7", "8", "9">>

DigitValue(c) == (CHOOSE i \in 1..Len(Digits) : Digits[i] = c) - 1

RECURSIVE Number(_)
Number(s) ==
    IF s = <<>> THEN 0 ELSE 10 * Number(SubSeq(s, 1, Len(s) - 1)) + DigitValue(s[Len(s)])

ParseF64(s) ==
    IF s # <<>> /\ \A i \in 1..Len(s) : s[i] \in AsciiDigit THEN Some(Number(s)) ELSE None

convert_osgb36_to_ll(easting, northing) ==
    IF easting \in 0..700000 /\ northing \in 0..1250000
    THEN Some(<<(easting \div 7) - 75570, (northing \div 11) + 497660>>)
    ELSE None

\* a slip: the grid reference is converted even when the lookup has the station
FallbackCoordinates(osm_lookup, crs, easting_str, northing_str) ==
    LET easting == unwrap_or(ParseF64(Trim(easting_str)), 0) * 100
        northing == unwrap_or(ParseF64(Trim(northing_str)), 0) * 100
    IN  unwrap_or(convert_osgb36_to_ll(easting, northing), <<0, 0>>)

Coordinates(osm_lookup, crs, easting_str, northing_str) ==
    IF get(osm_lookup, crs) # None
    THEN get(osm_lookup, crs)[1]
    ELSE LET easting == unwrap_or(ParseF64(Trim(easting_str)), 0) * 100
             northing == unwrap_or(ParseF64(Trim(northing_str)), 0) * 100
         IN  unwrap_or(convert_osgb36_to_ll(easting, northing), <<0, 0>>)

MSNLine(first, f) ==
    [type |-> Some(first), name |-> f[1], tiploc |-> f[2], crs |-> f[3],
     easting |-> f[4], northing |-> f[5]]

Crs(l) == Join(Trim(unwrap_or(l.crs, <<>>)))

ReadMsn(l) ==
    /\ files = 0
    /\ IF l.type = Some("A")
       THEN LET name == Trim(unwrap_or(l.name, <<>>))
                tiploc == Tiploc(l)
                easting_str == unwrap_or(l.easting, <<"0">>)
                northing_str == unwrap_or(l.northing, <<"0">>)
                coords == Coordinates(OsmLookup, Crs(l), easting_str, northing_str)
            IN  IF tiploc # ""
                THEN tiploc_map' = MapInsert(tiploc_map, tiploc,
                                       ParsedStation(tiploc, name, coords[1], coords[2]))
                ELSE tiploc_map' = tiploc_map
       ELSE tiploc_map' = tiploc_map
    /\ line' = Some(l)
    /\ UNCHANGED <<stop_limit, call_vars, toc_lookup, agencies_set, routes_map, trip_service_to_id,
                   uid_usage_count, calendar_signature_to_id, service_counter, writers,
                   files, current_trip, seq_counter, sched, nstops, phase, replaced, omitted, fin>>

\* the fields of the station lines: names, short station codes (the first is
\* in the lookup), grid references that convert, are malformed, or lie off the grid
NameEuston == <<"L", "O", "N", "D", "O", "N", " ", "E", "U", "S", "T", "O", "N", " ">>

NameWatford == <<"W", "A", "T", "F", "O", "R", "D", " ", "J", "U", "N", "C", "T", "I", "O", "N">>

FieldNoTiploc == <<" ", " ", " ", " ", " ", " ", " ">>

MSNTiplocs == { <<NameEuston, FieldEuston>>, <<NameWatford, FieldWatford>>,
                <<NameWatford, FieldNoTiploc>> }

MSNCrs == { Some(<<"E", "U", "S">>), Some(<<"W", "F", "J">>), None }

MSNGrid == { <<Some(<<"1", "5", "2", "9", "5">>), Some(<<"6", "1", "8", "2", "7">>)>>,
             <<Some(<<"1", "5", "2", "9", "5">>), Some(<<"6", "1", "8", " ", " ">>)>>,
             <<Some(<<"1", "5", "E", "9", "5">>), Some(<<" ", " ", " ", " ", " ">>)>>,
             <<Some(<<"9", "9", "9", "9", "9">>), Some(<<"6", "1", "8", "2", "7">>)>>,
             <<None, None>> }

MSNLines ==
    { MSNLine("A", <<Some(t[1]), Some(t[2]), c, g[1], g[2]>>) :
          t \in MSNTiplocs, c \in MSNCrs, g \in MSNGrid }
    \cup { MSNLine("Z", <<None, None, None, None, None>>) }

InitMsn ==
    /\ tiploc_map = EmptyMap
    /\ toc_lookup = Operators
    /\ agencies_set = {}
    /\ routes_map = EmptyMap
    /\ trip_service_to_id = EmptyMap
    /\ uid_usage_count = EmptyMap
    /\ calendar_signature_to_id = EmptyMap
    /\ service_counter = 0
    /\ trips_w = <<>>
    /\ st_w = <<>>
    /\ cal_w = <<>>
    /\ assoc_w = <<>>
    /\ files = 0
    /\ current_trip = None
    /\ seq_counter = 0
    /\ line = None
    /\ sched = 0
    /\ nstops = 0
    /\ stop_limit = MaxStopEvents
    /\ phase = "none"
    /\ replaced = FALSE
    /\ omitted = FALSE
    /\ fin = <<>>
    /\ args = None
    /\ result = None

NextMsn == \E l \in MSNLines : ReadMsn(l)

SpecMsn == InitMsn /\ [][NextMsn]_vars

(***************************************************************************)
(* The helpers called on their own: one call in a behaviour, on a raw      *)
(* time field or on the stops of a trip with a Station map of the metro    *)
(* sub-network.                                                            *)
(***************************************************************************)
\* characters of a raw time field
MaxRawLen == 5
\* stops handed to the classifier
MaxLoStops == 4

RawChars == {"0", "9", "H", "U+0663", "U+2460"}

RawFields == UNION {[1..n -> RawChars] : n \in 0..MaxRawLen}

CallFormatTime(raw) ==
    /\ args = None
    /\ args' = Some(<<"format_time", raw>>)
    /\ result' = Some(format_time(raw))
    /\ UNCHANGED <<stop_limit, main_vars, writers, files, current_trip, seq_counter, line, sched,
                   nstops, phase, replaced, omitted, fin>>

\* the location codes of the stops: a station for every marker of the decision list,
\* with a name in mixed case, and last a code that is in no Station map
LoStopOrder ==
    <<"GOSPLOK", "BARKING", "ROMFORD", "UPMNSTR", "LIVST", "CHESHNT", "ENFLDTN", "CHINGFD",
      "EUSTON", "WATFDJN", "SHRDHST", "STFD", "RICHMND", "WLSDNJL", "CMDNRD", "HACKNYC",
      "CMDNJN">>

LoStations ==
    [id \in {LoStopOrder[i] : i \in 1..(Len(LoStopOrder) - 1)} |->
        ParsedStation(id,
            CASE id = "GOSPLOK" -> GOSPEL_OAK
              [] id = "BARKING" -> BARKING
              [] id = "ROMFORD" -> ROMFORD
              [] id = "UPMNSTR" -> UPMINSTER
              [] id = "LIVST" -> LIVERPOOL_STREET
              [] id = "CHESHNT" -> CHESHUNT
              [] id = "ENFLDTN" -> ENFIELD_TOWN
              [] id = "CHINGFD" -> CHINGFORD
              [] id = "EUSTON" -> <<"L", "o", "n", "d", "o", "n", " ", "E", "u", "s", "t", "o", "n">>
              [] id = "WATFDJN" -> WATFORD_JUNCTION
              [] id = "SHRDHST" -> SHOREDITCH_HIGH_STREET
              [] id = "STFD" -> STRATFORD
              [] id = "RICHMND" -> RICHMOND
              [] id = "WLSDNJL" -> WILLESDEN_JUNCTION
              [] id = "CMDNRD" -> CAMDEN_ROAD
              [] id = "HACKNYC" -> HACKNEY_CENTRAL,
            51, 0)]

RECURSIVE InOrder(_, _)
InOrder(S, i) ==
    IF i > Len(LoStopOrder) THEN <<>>
    ELSE (IF i \in S THEN <<LoStopOrder[i]>> ELSE <<>>) \o InOrder(S, i + 1)

\* the stops of a trip: up to MaxLoStops of the codes, each once (the classifier
\* collects the names in a set before it looks at them)
LoStops ==
    {InOrder(S, 1) : S \in {T \in SUBSET (1..Len(LoStopOrder)) : Cardinality(T) <= MaxLoStops}}

CallGetLoLineDetails(ids) ==
    /\ args = None
    /\ LET stops == [i \in 1..Len(ids) |->
                        StopTime(PLACEHOLDER_TRIP_ID, "00:00:00", "00:00:00", ids[i], i)]
       IN  /\ args' = Some(<<"get_lo_line_details", stops>>)
           /\ result' = Some(get_lo_line_details(stops, LoStations))
    /\ UNCHANGED <<stop_limit, main_vars, writers, files, current_trip, seq_counter, line, sched,
                   nstops, phase, replaced, omitted, fin>>

NextHelpers ==
    \/ \E raw \in RawFields : CallFormatTime(raw)
    \/ \E ids \in LoStops : CallGetLoLineDetails(ids)

SpecHelpers == Init /\ [][NextHelpers]_vars

Called(name) == args # None /\ args[1][1] = name

(***************************************************************************)
(* Reading the history.  Entry k of fin holds the sizes of the writers     *)
(* and the service counter as finalization k found them; what it left      *)
(* behind is what finalization k + 1 found, or what is there now, since    *)
(* no other step writes trips, stop_times or calendar rows.                *)
(***************************************************************************)
Finalizations == 1..Len(fin)

TripsRowsAfter(k) == IF k < Len(fin) THEN fin[k + 1].trips_rows ELSE Len(trips_w)

StRowsAfter(k) == IF k < Len(fin) THEN fin[k + 1].st_rows ELSE Len(st_w)

CalRowsAfter(k) == IF k < Len(fin) THEN fin[k + 1].cal_rows ELSE Len(cal_w)

CounterAfter(k) == IF k < Len(fin) THEN fin[k + 1].counter ELSE service_counter

TripRows(k) == SubSeq(trips_w, fin[k].trips_rows + 1, TripsRowsAfter(k))

StopTimeRows(k) == SubSeq(st_w, fin[k].st_rows + 1, StRowsAfter(k))

Written(k) == TripRows(k) # <<>>

Min(S) == CHOOSE x \in S : \A y \in S : x <= y

StopsOf(trip_opt) == IF trip_opt = None THEN <<>> ELSE trip_opt[1].stops

LineIs(opt, type) == opt # None /\ opt[1].type = Some(type)

Resolved(l) == Tiploc(l) \in DOMAIN tiploc_map

(***************************************************************************)
(* C1.  In every trip written, the stop_sequence values of its stop_times  *)
(* rows, in written order, start at 1 and strictly increase.               *)
(***************************************************************************)
C1_StopSequencesIncreaseFromOne ==
    \A k \in Finalizations :
        LET rows == StopTimeRows(k)
        IN  rows # <<>> =>
                /\ rows[1].stop_sequence = 1
                /\ \A i \in 1..(Len(rows) - 1) :
                       rows[i].stop_sequence < rows[i + 1].stop_sequence

(***************************************************************************)
(* C5.  Once a resolved "LT" has been processed with an accumulator open,  *)
(* a further "BX", "LO", "LI" or "LT" line before the next "BS" changes    *)
(* neither the accumulator nor the sequence number nor any output.         *)
(***************************************************************************)
C5_IdleAfterResolvedTerminal ==
    [][(/\ phase = "committed"
        /\ line' # None
        /\ line'[1].type \in {Some("BX"), Some("LO"), Some("LI"), Some("LT")})
       => UNCHANGED <<current_trip, seq_counter, main_vars, writers>>]_vars

(***************************************************************************)
(* C6.  A "BS" line gives rise to at most one trips row; so no stop event  *)
(* of its accumulator is written under two trip identifiers.               *)
(***************************************************************************)
C6_OneTripPerSchedule ==
    \A j, k \in Finalizations :
        (j < k /\ fin[j].bs = fin[k].bs) => ~(Written(j) /\ Written(k))

(***************************************************************************)
(* C7.  After an "LT" whose location code is not in the Station map was    *)
(* read with an accumulator open, no trips or stop_times row is written    *)
(* before the next "BS" line.                                              *)
(***************************************************************************)
C7_UnresolvedTerminalEmitsNothing ==
    [][phase = "unresolved" => UNCHANGED <<trips_w, st_w>>]_vars

(***************************************************************************)
(* C8.  After a "BS" line with revision indicator "C" there is no          *)
(* accumulator, and until the next "BS" line that is not a cancellation    *)
(* no trips, stop_times or calendar row is written and no route or agency  *)
(* is added.                                                               *)
(***************************************************************************)
C8_CancellationDiscards ==
    /\ [](phase = "cancelled" => current_trip = None)
    /\ [][phase = "cancelled"
          => UNCHANGED <<trips_w, st_w, cal_w, routes_map, agencies_set>>]_vars

\* C8 witness: a resolved "LT" was read after a cancellation that dropped an open accumulator
C8_TerminalAfterCancellation ==
    /\ phase = "cancelled"
    /\ replaced
    /\ LineIs(line, "LT")
    /\ Resolved(line[1])
    /\ trips_w = <<>>

BothPublicTimesZero(l) ==
    unwrap_or(l.pub_arr, "0000") = "0000" /\ unwrap_or(l.pub_dep, "0000") = "0000"

AppendsOneStop ==
    Len(StopsOf(current_trip')) = Len(StopsOf(current_trip)) + 1

(***************************************************************************)
(* C9.  An "LI" line whose public arrival and departure are both "0000"    *)
(* appends no stop and leaves the sequence number alone, whether or not    *)
(* its location code resolves.  As claimed: an "LI" line with a public     *)
(* time other than "0000" and a resolved location code appends exactly     *)
(* one stop.  As amended: it does so when an accumulator is open, and the  *)
(* stop carries the line's location code and the next sequence number.     *)
(***************************************************************************)
C9_IntermediateStopFilter_Claimed ==
    [][LineIs(line', "LI") =>
           IF BothPublicTimesZero(line'[1])
           THEN StopsOf(current_trip') = StopsOf(current_trip) /\ seq_counter' = seq_counter
           ELSE Resolved(line'[1]) => AppendsOneStop]_vars

\* C9 as amended: the second half holds when an accumulator is open
C9_IntermediateStopFilter ==
    [][LineIs(line', "LI") =>
           IF BothPublicTimesZero(line'[1])
           THEN StopsOf(current_trip') = StopsOf(current_trip) /\ seq_counter' = seq_counter
           ELSE (Resolved(line'[1]) /\ current_trip # None) =>
                    /\ AppendsOneStop
                    /\ SubSeq(StopsOf(current_trip'), 1, Len(StopsOf(current_trip)))
                           = StopsOf(current_trip)
                    /\ LET stop == StopsOf(current_trip')[Len(StopsOf(current_trip'))]
                       IN  /\ stop.stop_id = Tiploc(line'[1])
                           /\ stop.stop_sequence = seq_counter
                    /\ seq_counter' = seq_counter + 1]_vars

\* C9 witness: right after "BS", a "0000"/"0000" line of a known station left the accumulator empty
C9_ZeroTimesSkipped ==
    /\ LineIs(line, "LI")
    /\ BothPublicTimesZero(line[1])
    /\ Resolved(line[1])
    /\ current_trip # None
    /\ current_trip[1].stops = <<>>
    /\ seq_counter = 1

(***************************************************************************)
(* C10.  Every stop_times row, and every stop held in the accumulator,     *)
(* has a stop_id that is a key of the Station map.                         *)
(***************************************************************************)
C10_StopIdsResolved ==
    /\ \A i \in 1..Len(st_w) : st_w[i].stop_id \in DOMAIN tiploc_map
    /\ \A i \in 1..Len(StopsOf(current_trip)) :
           StopsOf(current_trip)[i].stop_id \in DOMAIN tiploc_map

\* C10 witness: an "LI" line of an unknown location, with a public time, was read into an open
\* accumulator that holds a stop, with stop_times rows already written
C10_UnresolvedLocationRead ==
    /\ LineIs(line, "LI")
    /\ ~Resolved(line[1])
    /\ ~BothPublicTimesZero(line[1])
    /\ StopsOf(current_trip) # <<>>
    /\ st_w # <<>>

StopPattern(rows) ==
    [i \in 1..Len(rows) |->
        <<rows[i].stop_id, rows[i].arrival_time, rows[i].departure_time>>]

WritesItsTrip(k) ==
    /\ Len(TripRows(k)) = 1
    /\ TripRows(k)[1].route_id = fin[k].sig.trip_sig.route_id
    /\ TripRows(k)[1].service_id = fin[k].sig.service_id
    /\ TripRows(k)[1].trip_headsign = Join(fin[k].sig.trip_sig.headsign)
    /\ TripRows(k)[1].trip_short_name = fin[k].sig.trip_sig.train_identity
    /\ StopPattern(StopTimeRows(k)) = fin[k].sig.trip_sig.stop_pattern
    /\ \A i \in 1..Len(StopTimeRows(k)) :
           StopTimeRows(k)[i].trip_id = TripRows(k)[1].trip_id

WritesNothing(k) == TripRows(k) = <<>> /\ StopTimeRows(k) = <<>>

(***************************************************************************)
(* C2.  Among the finalizations with one trip+service signature (route     *)
(* identifier, stop pattern, headsign, short train identifier, service     *)
(* identifier) the first writes one trips row and the stop_times rows of   *)
(* its stops, and every later one writes no trips and no stop_times row.   *)
(* No trips or stop_times row is written outside a finalization.           *)
(***************************************************************************)
C2_DuplicateTripsSuppressed ==
    /\ IF fin = <<>>
       THEN trips_w = <<>> /\ st_w = <<>>
       ELSE fin[1].trips_rows = 0 /\ fin[1].st_rows = 0
    /\ \A k \in Finalizations :
           LET same == {j \in Finalizations : fin[j].sig = fin[k].sig}
           IN  IF k = Min(same) THEN WritesItsTrip(k) ELSE WritesNothing(k)

\* C2 witness: the same trip and calendar came again under another UID and wrote nothing
C2_DuplicateUnderOtherUid ==
    \E j, k \in Finalizations :
        /\ j < k
        /\ fin[j].sig = fin[k].sig
        /\ fin[j].uid # fin[k].uid
        /\ Written(j)
        /\ WritesNothing(k)

SignatureOfRow(row) ==
    [monday |-> row.monday, tuesday |-> row.tuesday, wednesday |-> row.wednesday,
     thursday |-> row.thursday, friday |-> row.friday, saturday |-> row.saturday,
     sunday |-> row.sunday, start_date |-> row.start_date, end_date |-> row.end_date]

(***************************************************************************)
(* C3.  A finalization whose calendar signature (7 day flags, start date,  *)
(* end date) was seen before takes the service identifier of the first     *)
(* one, leaves the service counter alone and writes no calendar row; the   *)
(* calendar map holds that identifier for the signature and calendar holds *)
(* exactly one row of that signature, with that identifier.                *)
(***************************************************************************)
C3_CalendarSignatureReused ==
    \A k \in Finalizations :
        LET cal_sig == fin[k].cal_sig
            first == Min({j \in Finalizations : fin[j].cal_sig = cal_sig})
            rows == {i \in 1..Len(cal_w) : SignatureOfRow(cal_w[i]) = cal_sig}
        IN  /\ fin[k].service_id = fin[first].service_id
            /\ k # first => /\ CounterAfter(k) = fin[k].counter
                            /\ CalRowsAfter(k) = fin[k].cal_rows
            /\ cal_sig \in DOMAIN calendar_signature_to_id
            /\ calendar_signature_to_id[cal_sig] = fin[k].service_id
            /\ Cardinality(rows) = 1
            /\ \A i \in rows : cal_w[i].service_id = fin[k].service_id

\* C3 witness: the calendar of one BS line came again with another BS line and another trip
C3_CalendarSeenAgain ==
    \E j, k \in Finalizations :
        /\ j < k
        /\ fin[j].bs # fin[k].bs
        /\ fin[j].cal_sig = fin[k].cal_sig
        /\ fin[j].sig # fin[k].sig
        /\ Written(k)

TripId(k) == TripRows(k)[1].trip_id

SuffixedTripId(k) == fin[k].uid \o "_" \o fin[k].date_start \o "_" \o fin[k].stp_ind

(***************************************************************************)
(* C4.  As claimed: of the finalized trips with one business UID the       *)
(* first finalized is written under the bare UID and every other under     *)
(* UID_start-date_revision-indicator.  As amended: this holds of the       *)
(* trips written, that is, not suppressed as duplicates; the first one     *)
(* written has the bare UID.                                               *)
(***************************************************************************)
C4_BareUidOnce_Claimed ==
    \A k \in Finalizations :
        LET same == {j \in Finalizations : fin[j].uid = fin[k].uid}
        IN  /\ Written(k)
            /\ TripId(k) = IF k = Min(same) THEN fin[k].uid ELSE SuffixedTripId(k)

\* C4 as amended: of the trips written under one UID, the first written has the
\* bare UID and every other UID_start-date_revision-indicator
C4_BareUidOnce ==
    \A k \in Finalizations :
        LET same == {j \in Finalizations : fin[j].uid = fin[k].uid /\ Written(j)}
        IN  Written(k) =>
                TripId(k) = IF k = Min(same) THEN fin[k].uid ELSE SuffixedTripId(k)

\* C4 witness: a second trip was written under a UID, from another BS line than the first
C4_SecondTripOfUid ==
    \E j, k \in Finalizations :
        /\ j < k
        /\ fin[j].uid = fin[k].uid
        /\ fin[j].bs # fin[k].bs
        /\ Written(j)
        /\ Written(k)
        /\ TripId(j) = fin[j].uid
        /\ TripId(k) # fin[k].uid

(***************************************************************************)
(* C11.  No step changes or removes the row the routes map holds for a     *)
(* route identifier: a finalization that derives an identifier already in  *)
(* the map leaves its agency, names and colours as they are.               *)
(***************************************************************************)
C11_RoutesFirstWriterWins ==
    [][\A id \in DOMAIN routes_map :
           id \in DOMAIN routes_map' /\ routes_map'[id] = routes_map[id]]_vars

\* C11 witness: the last "LT" derived a route identifier that the map holds with another row
C11_RouteDerivedAgain ==
    /\ LineIs(line, "LT")
    /\ phase = "committed"
    /\ current_trip # None
    /\ LET route == Route(current_trip[1], tiploc_map)
       IN  /\ route.route_id \in DOMAIN routes_map
           /\ routes_map[route.route_id] # route

(***************************************************************************)
(* C12.  The agency set never holds two rows with one agency_id: every     *)
(* row is the one its operator code gives, whatever trip it came from.     *)
(***************************************************************************)
C12_OneAgencyPerOperatorCode ==
    /\ \A a, b \in agencies_set : a.agency_id = b.agency_id => a = b
    /\ \A a \in agencies_set : a = Agency(a.agency_id, toc_lookup)

\* C12 witness: the trips of two "BS" lines were finalized with the operator code "VT"
C12_OperatorCodeSeenAgain ==
    /\ Len(fin) = 2
    /\ fin[1].bs # fin[2].bs
    /\ Cardinality(agencies_set) = 1
    /\ \E a \in agencies_set : a.agency_id = "VT"

(***************************************************************************)
(* C13.  An "A" line whose short station code is a key of the geocode      *)
(* lookup, and whose location code is not empty, stores a Station with     *)
(* the lookup's latitude and longitude, whatever its grid reference is.    *)
(***************************************************************************)
C13_LookupCoordinatesVerbatim ==
    [][(/\ LineIs(line', "A")
        /\ Crs(line'[1]) \in DOMAIN OsmLookup
        /\ Tiploc(line'[1]) # "")
       => /\ Tiploc(line'[1]) \in DOMAIN tiploc_map'
          /\ tiploc_map'[Tiploc(line'[1])].lat = OsmLookup[Crs(line'[1])][1]
          /\ tiploc_map'[Tiploc(line'[1])].lon = OsmLookup[Crs(line'[1])][2]]_vars

\* C13 witness: a station of the lookup was read with a grid reference that converts,
\* and replaced a Station of the same location code that had converted coordinates
C13_LookupOverGridReference ==
    /\ LineIs(line, "A")
    /\ Crs(line[1]) \in DOMAIN OsmLookup
    /\ line[1].easting # None
    /\ convert_osgb36_to_ll(unwrap_or(ParseF64(Trim(line[1].easting[1])), 0) * 100,
                            unwrap_or(ParseF64(Trim(line[1].northing[1])), 0) * 100) # None
    /\ Tiploc(line[1]) \in DOMAIN tiploc_map
    /\ <<tiploc_map[Tiploc(line[1])].lat, tiploc_map[Tiploc(line[1])].lon>>
           = OsmLookup[Crs(line[1])]
    /\ \E t \in DOMAIN tiploc_map :
           /\ t # Tiploc(line[1])
           /\ <<tiploc_map[t].lat, tiploc_map[t].lon>> \notin {OsmLookup["EUS"], <<0, 0>>}

LionessLine == <<"Lioness Line", "LO-LIONESS", "f1b41c">>

EustonAndWatfordJunction(stops, map) ==
    /\ \E n \in StopNames(stops, map) : contains(to_uppercase(n), EUSTON)
    /\ \E n \in StopNames(stops, map) : contains(to_uppercase(n), WATFORD_JUNCTION)

EarlierPairing(stops, map) ==
    LET names == StopNames(stops, map)
    IN  \/ has(names, GOSPEL_OAK) /\ has(names, BARKING)
        \/ has(names, ROMFORD) /\ has(names, UPMINSTER)
        \/ /\ has(names, LIVERPOOL_STREET)
           /\ has(names, CHESHUNT) \/ has(names, ENFIELD_TOWN) \/ has(names, CHINGFORD)

(***************************************************************************)
(* C14.  As stated: get_lo_line_details returns the Lioness Line triple    *)
(* for every list of stops whose station names include one that contains   *)
(* "EUSTON" and one that contains "WATFORD JUNCTION".  As amended: it      *)
(* does so unless a pairing earlier in the decision list is also there     *)
(* (GOSPEL OAK with BARKING, ROMFORD with UPMINSTER, LIVERPOOL STREET      *)
(* with CHESHUNT, ENFIELD TOWN or CHINGFORD), and then returns the triple  *)
(* of the first of these.                                                  *)
(***************************************************************************)
C14_LionessLine_Stated ==
    (Called("get_lo_line_details") /\ EustonAndWatfordJunction(args[1][2], LoStations))
        => result = Some(LionessLine)

\* C14 as amended: the pairing wins over every later rule and loses to every earlier one
C14_LionessLine ==
    (Called("get_lo_line_details") /\ EustonAndWatfordJunction(args[1][2], LoStations))
        => IF EarlierPairing(args[1][2], LoStations)
           THEN result[1][2] \in {"LO-SUFFRAGETTE", "LO-LIBERTY", "LO-WEAVER"}
           ELSE result = Some(LionessLine)

\* C14 witness: Euston and Watford Junction with a station of a later rule and a stop of
\* no station; the Lioness Line was returned
C14_LionessOverLaterRules ==
    /\ Called("get_lo_line_details")
    /\ {args[1][2][i].stop_id : i \in 1..Len(args[1][2])}
           = {"EUSTON", "WATFDJN", "SHRDHST", "CMDNJN"}
    /\ result = Some(LionessLine)

NumericOf(raw) == SelectSeq(raw, LAMBDA c : c \in Numeric)

(***************************************************************************)
(* C15.  format_time of a raw field with at least four numeric characters  *)
(* is HH:MM:00 with HH the first two and MM the next two of them; of a     *)
(* raw field with fewer than four numeric characters it is "00:00:00".     *)
(***************************************************************************)
C15_FormatTime ==
    Called("format_time") =>
        LET digits == NumericOf(args[1][2])
        IN  IF Len(digits) >= 4
            THEN result = Some(digits[1] \o digits[2] \o ":" \o digits[3] \o digits[4] \o ":00")
            ELSE result = Some("00:00:00")

FirstWith(cal_sig) == Min({j \in Finalizations : fin[j].cal_sig = cal_sig})

SignaturesBefore(k) == {fin[j].cal_sig : j \in 1..(k - 1)}

(***************************************************************************)
(* C16.  The service counter is the number of entries of the calendar map  *)
(* and the number of calendar rows; row k carries the k-th synthetic       *)
(* identifier ("SVC" and k - 1) and the map holds it for the row's         *)
(* signature; a finalization gets the identifier whose number is the       *)
(* count of distinct signatures finalized before the first finalization    *)
(* of its own; distinct signatures have distinct identifiers.              *)
(***************************************************************************)
C16_ServiceIdsSequential ==
    /\ service_counter = Cardinality(DOMAIN calendar_signature_to_id)
    /\ service_counter = Len(cal_w)
    /\ \A k \in 1..Len(cal_w) :
           /\ cal_w[k].service_id = "SVC" \o ToString(k - 1)
           /\ SignatureOfRow(cal_w[k]) \in DOMAIN calendar_signature_to_id
           /\ calendar_signature_to_id[SignatureOfRow(cal_w[k])] = cal_w[k].service_id
    /\ \A k \in Finalizations :
           fin[k].service_id
               = "SVC" \o ToString(Cardinality(SignaturesBefore(FirstWith(fin[k].cal_sig))))
    /\ \A a, b \in DOMAIN calendar_signature_to_id :
           a # b => calendar_signature_to_id[a] # calendar_signature_to_id[b]

\* C16 witness: the second distinct calendar signature was finalized in the second file
C16_SecondServiceInSecondFile ==
    /\ files = 2
    /\ Len(fin) = 2
    /\ fin[1].cal_sig # fin[2].cal_sig
    /\ fin[1].service_id = "SVC0"
    /\ fin[2].service_id = "SVC1"
    /\ fin[2].counter = 1
    /\ service_counter = 2

LastStop(stops) == stops[Len(stops)]

FromLocationRecord(stop, l) ==
    /\ l.type \in {Some("LO"), Some("LI"), Some("LT")}
    /\ stop.stop_id = Tiploc(l)

(***************************************************************************)
(* C17.  A "BS" line that is not a cancellation leaves a fresh             *)
(* accumulator: the line's UID, dates, days, train identifier and          *)
(* revision indicator, operator code "NR", empty origin and destination,   *)
(* no stops, and the next sequence number 1.  It and the end of a file     *)
(* write nothing, whatever accumulator was open.  Any other line keeps     *)
(* the stops of the accumulator or appends one of its own location code,   *)
(* and the stop_times rows a step writes are the stops of the accumulator: *)
(* so every row written comes from a location line read after the last     *)
(* "BS" line.                                                              *)
(***************************************************************************)
C17_FreshAccumulatorPerSchedule ==
    [][/\ (LineIs(line', "BS") /\ line'[1].stp # Some("C")) =>
              /\ current_trip' # None
              /\ current_trip'[1] =
                     [uid |-> unwrap_or(line'[1].uid, ""),
                      date_start |-> unwrap_or(line'[1].d_start, ""),
                      date_end |-> unwrap_or(line'[1].d_end, ""),
                      days_run |-> unwrap_or(line'[1].days, DefaultDays),
                      stp_ind |-> unwrap_or(line'[1].stp, "P"),
                      atoc_code |-> "NR",
                      train_identity |-> Join(Trim(unwrap_or(line'[1].train_id, <<>>))),
                      origin_name |-> <<>>, dest_name |-> <<>>, stops |-> <<>>]
              /\ seq_counter' = 1
       /\ (LineIs(line', "BS") \/ files' # files) =>
              /\ UNCHANGED <<writers, main_vars>>
              /\ StopsOf(current_trip') = <<>>
       /\ (line' # None /\ ~LineIs(line', "BS")) =>
              \/ StopsOf(current_trip') = StopsOf(current_trip)
              \/ /\ StopsOf(current_trip') # <<>>
                 /\ StopsOf(current_trip')
                        = Append(StopsOf(current_trip), LastStop(StopsOf(current_trip')))
                 /\ FromLocationRecord(LastStop(StopsOf(current_trip')), line'[1])
       /\ st_w' # st_w =>
              /\ Len(st_w') = Len(st_w) + Len(StopsOf(current_trip'))
              /\ \A i \in 1..Len(StopsOf(current_trip')) :
                     [st_w'[Len(st_w) + i] EXCEPT !.trip_id = PLACEHOLDER_TRIP_ID]
                         = StopsOf(current_trip')[i]]_vars

\* C17 witness: the second "BS" line dropped an accumulator that held a stop, and the
\* trip written after it has the one stop read since
C17_DroppedAccumulatorNotEmitted ==
    /\ Len(fin) = 1
    /\ fin[1].bs = 2
    /\ replaced
    /\ nstops = 2
    /\ Len(st_w) = 1
    /\ Len(trips_w) = 1

downstream ==
    <<trips_w, st_w, cal_w, routes_map, agencies_set, trip_service_to_id,
      calendar_signature_to_id, uid_usage_count, service_counter>>

(***************************************************************************)
(* C18.  A "BS", "BX", "LO" or "LI" line, a line of another record type    *)
(* and a line shorter than 2 characters write no trips, stop_times or      *)
(* calendar row and leave the routes map, the agency set, the two          *)
(* consolidation maps, the UID usage counts and the service counter as     *)
(* they are; a step that changes any of them reads an "LT" line whose      *)
(* location code is in the Station map, with an accumulator open.          *)
(***************************************************************************)
C18_OnlyResolvedTerminalCommits ==
    [][/\ (line' # None /\ line'[1].type \notin {Some("LT"), Some("AA")})
              => UNCHANGED downstream
       /\ ~(UNCHANGED downstream)
              => /\ LineIs(line', "LT")
                 /\ Resolved(line'[1])
                 /\ current_trip # None]_vars

\* C18 witness: with a trip already written, an "LI" line appended a stop to the
\* accumulator of the next "BS" line
C18_StopAppendedAfterCommit ==
    /\ LineIs(line, "LI")
    /\ phase = "open"
    /\ StopsOf(current_trip) # <<>>
    /\ trips_w # <<>>
    /\ agencies_set # {}

(***************************************************************************)
(* C19.  An "AA" line appends one row, of its own fields, to associations, *)
(* with or without an accumulator open and also when the same row is       *)
(* there already; it leaves the accumulator, the sequence number, the      *)
(* maps, the counter and the other writers as they are, so the trip the    *)
(* next "LT" line writes is the one it would have written without it.      *)
(***************************************************************************)
C19_AssociationsEmittedDirectly ==
    [][LineIs(line', "AA") =>
           /\ Len(assoc_w') = Len(assoc_w) + 1
           /\ SubSeq(assoc_w', 1, Len(assoc_w)) = assoc_w
           /\ assoc_w'[Len(assoc_w')].base_uid = unwrap_or(line'[1].base_uid, "")
           /\ assoc_w'[Len(assoc_w')].assoc_uid = unwrap_or(line'[1].assoc_uid, "")
           /\ UNCHANGED <<current_trip, seq_counter, main_vars, trips_w, st_w, cal_w>>]_vars

\* C19 witness: the same "AA" line was read a second time, after the first stop of an
\* open accumulator, and is in associations twice
C19_AssociationRepeatedWhileAccumulating ==
    /\ LineIs(line, "AA")
    /\ Len(assoc_w) = 2
    /\ assoc_w[1] = assoc_w[2]
    /\ phase = "open"
    /\ Len(StopsOf(current_trip)) = 1

OperatorField(l) == Join(Trim(unwrap_or(l.atoc, <<>>)))

(***************************************************************************)
(* C20.  The operator code of the accumulator is "NR" after a "BS" line,   *)
(* is the code of a "BX" line that carries one, is left alone by a "BX"    *)
(* line whose operator field is blank or missing and by every other line;  *)
(* a trip is written with the agency and the route of that code.           *)
(***************************************************************************)
C20_OperatorCodeFromLastExtra ==
    [][/\ (LineIs(line', "BS") /\ current_trip' # None)
              => current_trip'[1].atoc_code = "NR"
       /\ (LineIs(line', "BX") /\ current_trip # None)
              => /\ current_trip' # None
                 /\ current_trip'[1].atoc_code =
                        IF OperatorField(line'[1]) # ""
                        THEN OperatorField(line'[1])
                        ELSE current_trip[1].atoc_code
       /\ (line' # None /\ line'[1].type \notin {Some("BS"), Some("BX")}
                        /\ current_trip # None)
              => /\ current_trip' # None
                 /\ current_trip'[1].atoc_code = current_trip[1].atoc_code
       /\ trips_w' # trips_w
              => /\ \E a \in agencies_set' : a.agency_id = current_trip[1].atoc_code
                 /\ LET row == trips_w'[Len(trips_w')]
                    IN  /\ row.route_id \in DOMAIN routes_map'
                        /\ routes_map'[row.route_id].agency_id = current_trip[1].atoc_code
                        /\ routes_map'[row.route_id].route_short_name
                               = current_trip[1].atoc_code]_vars

\* the stop_times rows a step appended
NewStopTimeRows == SubSeq(st_w', Len(st_w) + 1, Len(st_w'))

(***************************************************************************)
(* C21.  An "LO" or "LI" line whose location code is not in the Station    *)
(* map appends no stop, uses no sequence number and changes neither the    *)
(* accumulator nor a map, the counter or a writer; an open accumulator     *)
(* stays open.  A resolved "LT" line read later in the schedule reaches    *)
(* the consolidation all the same: the trip is written unless its          *)
(* signature was written before, with the stops accumulated from the       *)
(* matched lines and the terminal stop, and no other.                      *)
(***************************************************************************)
C21_UnresolvedStopOmitted ==
    [][/\ ((LineIs(line', "LO") \/ LineIs(line', "LI")) /\ ~Resolved(line'[1]))
              => UNCHANGED <<current_trip, seq_counter, main_vars, writers>>
       /\ (omitted /\ current_trip # None /\ LineIs(line', "LT") /\ Resolved(line'[1]))
              => /\ Len(fin') = Len(fin) + 1
                 /\ current_trip' # None
                 /\ trips_w' # trips_w
                        <=> fin'[Len(fin')].sig \notin DOMAIN trip_service_to_id
                 /\ trips_w' # trips_w
                        => /\ Len(NewStopTimeRows) = Len(current_trip[1].stops) + 1
                           /\ \A i \in 1..Len(current_trip[1].stops) :
                                  NewStopTimeRows[i].stop_id = current_trip[1].stops[i].stop_id
                           /\ LastStop(NewStopTimeRows).stop_id = Tiploc(line'[1])
                           /\ \A i \in 1..Len(NewStopTimeRows) :
                                  NewStopTimeRows[i].stop_id \in DOMAIN tiploc_map]_vars

\* C21 witness: the first trip of the run was written by a resolved "LT" line, with the
\* matched origin and the terminal stop, after a line of its schedule was left out
C21_TripWrittenWithoutUnresolvedStop ==
    /\ omitted
    /\ LineIs(line, "LT")
    /\ Resolved(line[1])
    /\ Len(fin) = 1
    /\ Written(1)
    /\ Len(StopTimeRows(1)) = 2

(***************************************************************************)
(* The decision list as the specification gives it: the rules in order,    *)
(* each with the alternatives of markers that select it.                   *)
(***************************************************************************)
LoRules ==
    << [line |-> <<"Suffragette Line", "LO-SUFFRAGETTE", "008163">>,
        markers |-> {{GOSPEL_OAK, BARKING}}],
       [line |-> <<"Liberty Line", "LO-LIBERTY", "676767">>,
        markers |-> {{ROMFORD, UPMINSTER}}],
       [line |-> <<"Weaver Line", "LO-WEAVER", "a90068">>,
        markers |-> {{LIVERPOOL_STREET, CHESHUNT}, {LIVERPOOL_STREET, ENFIELD_TOWN},
                     {LIVERPOOL_STREET, CHINGFORD}}],
       [line |-> LionessLine,
        markers |-> {{EUSTON, WATFORD_JUNCTION}}],
       [line |-> <<"Windrush Line", "LO-WINDRUSH", "dc2517">>,
        markers |-> {{SHOREDITCH_HIGH_STREET}}],
       [line |-> <<"Mildmay Line", "LO-MILDMAY", "437ec1">>,
        markers |-> {{STRATFORD}, {RICHMOND, WILLESDEN_JUNCTION}, {CAMDEN_ROAD},
                     {HACKNEY_CENTRAL}}] >>

GenericLine == <<"London Overground", "LO-GENERIC", "E66A1F">>

SameLetter(a, b) == UpperChar(a) = UpperChar(b)

ContainedIgnoringCase(marker, name) ==
    \E i \in 0..(Len(name) - Len(marker)) :
        \A j \in 1..Len(marker) : SameLetter(name[i + j], marker[j])

Selects(rule, names) ==
    \E alternative \in rule.markers :
        \A marker \in alternative : \E n \in names : ContainedIgnoringCase(marker, n)

FirstRule(names) ==
    LET selected == {r \in 1..Len(LoRules) : Selects(LoRules[r], names)}
    IN  IF selected = {} THEN GenericLine ELSE LoRules[Min(selected)].line

NamesOfStops(stops) ==
    {LoStations[stops[i].stop_id].name :
        i \in {j \in 1..Len(stops) : stops[j].stop_id \in DOMAIN LoStations}}

(***************************************************************************)
(* C22.  get_lo_line_details returns the triple of the first rule, in the  *)
(* order Suffragette, Liberty, Weaver, Lioness, Windrush, Mildmay, of      *)
(* which every marker of one alternative is contained, whatever the case   *)
(* of the letters, in the name of a station of the stops, and the generic  *)
(* London Overground triple when no rule is selected.                      *)
(***************************************************************************)
C22_FirstMatchWins ==
    Called("get_lo_line_details") => result = Some(FirstRule(NamesOfStops(args[1][2])))

\* C22 witness: Liverpool Street with Chingford, Stratford and a stop of no station select
\* the Weaver and the Mildmay rule; the Weaver Line, the earlier one, was returned
C22_WeaverOverMildmay ==
    /\ Called("get_lo_line_details")
    /\ {args[1][2][i].stop_id : i \in 1..Len(args[1][2])}
           = {"LIVST", "CHINGFD", "STFD", "CMDNJN"}
    /\ result[1][2] = "LO-WEAVER"

(***************************************************************************)
(* C23.  No two rows written to trips carry the same trip_id, whatever     *)
(* the lines read: not when three or more trips are written under one      *)
(* UID, and not when two of them also share the start date of validity     *)
(* and the revision indicator.                                             *)
(***************************************************************************)
C23_TripIdsUnique ==
    \A i, j \in 1..Len(trips_w) :
        i # j => trips_w[i].trip_id # trips_w[j].trip_id

(***************************************************************************)
(* C24.  In every reachable state the outputs are referentially closed:    *)
(* the service_id of each trips row is that of a calendar row written,     *)
(* its route_id is a key of the routes map, and the agency_id of that      *)
(* route is that of an agency of the agency set; each stop_times row was   *)
(* written by a finalization that wrote a trips row, and carries the       *)
(* trip_id of that row and not the placeholder.                            *)
(***************************************************************************)
C24_OutputsReferentiallyClosed ==
    /\ \A i \in 1..Len(trips_w) :
           /\ \E c \in 1..Len(cal_w) : cal_w[c].service_id = trips_w[i].service_id
           /\ trips_w[i].route_id \in DOMAIN routes_map
           /\ \E a \in agencies_set :
                  a.agency_id = routes_map[trips_w[i].route_id].agency_id
    /\ \A i \in 1..Len(st_w) :
           /\ st_w[i].trip_id # PLACEHOLDER_TRIP_ID
           /\ \E k \in Finalizations :
                  /\ fin[k].st_rows < i
                  /\ i <= StRowsAfter(k)
                  /\ Len(TripRows(k)) = 1
                  /\ st_w[i].trip_id = TripId(k)

\* C24 witness: the second trips row refers to the calendar row and the route that the
\* first finalization left; three stop_times rows are written under the two trips
C24_SecondTripOnWrittenCalendarAndRoute ==
    /\ Len(trips_w) = 2
    /\ Len(cal_w) = 1
    /\ trips_w[2].service_id = cal_w[1].service_id
    /\ trips_w[1].route_id = trips_w[2].route_id
    /\ DOMAIN routes_map = {trips_w[2].route_id}
    /\ Len(st_w) = 3
    /\ st_w[3].trip_id = trips_w[2].trip_id

RouteOf(k) == fin[k].sig.trip_sig.route_id

AllocatesService(k) == CalRowsAfter(k) > fin[k].cal_rows

InsertsRoute(k) == \A j \in Finalizations : j < k => RouteOf(j) # RouteOf(k)

(***************************************************************************)
(* C25.  A finalization that allocates a new service identifier, or whose  *)
(* route identifier no earlier finalization put into the routes map,       *)
(* writes its trip: it is not suppressed as a duplicate.  So every         *)
(* calendar row written and every route of the routes map is referred to   *)
(* by a trips row written.                                                 *)
(***************************************************************************)
C25_NoOrphanCalendarsOrRoutes ==
    /\ DOMAIN routes_map = {RouteOf(k) : k \in Finalizations}
    /\ \A k \in Finalizations : (AllocatesService(k) \/ InsertsRoute(k)) => Written(k)
    /\ \A c \in 1..Len(cal_w) :
           \E i \in 1..Len(trips_w) : trips_w[i].service_id = cal_w[c].service_id
    /\ \A id \in DOMAIN routes_map :
           \E i \in 1..Len(trips_w) : trips_w[i].route_id = id

\* C25 witness: a trip pattern written before came again with a calendar not seen before,
\* on a route already in the map; the new service identifier is on a second trips row
C25_KnownPatternUnderNewService ==
    \E j, k \in Finalizations :
        /\ j < k
        /\ fin[j].sig.trip_sig = fin[k].sig.trip_sig
        /\ AllocatesService(k)
        /\ ~InsertsRoute(k)
        /\ Written(k)
        /\ TripRows(k)[1].service_id = cal_w[Len(cal_w)].service_id

====
